---- MODULE Spec2Model ----
(***************************************************************************)
(* Model of obmc-console's console-client.c: the relay loop of main(),    *)
(* process_tty() with its escape-sequence recogniser, process_console(),  *)
(* and the set-up / tear-down of the session.                              *)
(*                                                                         *)
(* Endpoints are modelled by their histories: every read() result and     *)
(* every write_buf_to_fd() call is appended to a log, so that the bytes   *)
(* on the wire can be compared with the bytes that were read.             *)
(***************************************************************************)
EXTENDS Integers, Sequences, FiniteSets, TLC

(* ---- bounds of the model ------------------------------------------- *)
\* total number of bytes the terminal delivers in one run of SpecTty
MaxInput == 5
\* total number of bytes the terminal delivers in one run of Spec
MaxLoopInput == 3
\* total number of bytes the service delivers in one run
MaxConsole == 2

(* ---- program constants --------------------------------------------- *)
PROCESS_OK == 0
PROCESS_ERR == 1
PROCESS_EXIT == 2

\* '\r', the byte that arms the escape recogniser
CR == 13
\* static const uint8_t esc_str[] = { '~', '.' }
esc_str == <<126, 46>>
\* ARRAY_SIZE(esc_str)
ARRAY_SIZE_esc_str == Len(esc_str)

\* terminal input alphabet: '\r', '~', '.', and 'x' standing for any other byte
Byte == {CR, 126, 46, 120}
\* bytes sent by the service: opaque to the client ('a', '\r')
ConsoleByte == {97, CR}

VARIABLES
    pc,            \* position of main()
    esc_str_pos,   \* client->esc_str_pos
    newline,       \* client->newline
    esc_match,     \* history: which terminal bytes (by position in the input
                   \* stream, from 1) the increments of esc_str_pos counted
    scan_log,      \* history: esc_str_pos and newline after each byte the
                   \* for loop of process_tty has processed, in order
    is_tty,        \* client->is_tty
    orig_termios,  \* client->orig_termios
    term_attr,     \* attributes currently set on the terminal
    sd_open,       \* client->console_sd is an open, connected socket
    revents,       \* pollfds[0].revents, pollfds[1].revents
    prc,           \* main's prc
    rc,            \* main's rc
    exit_status,   \* value returned by main
    tty_reads,     \* results of read(client->fd_in), in order
    sd_writes,     \* calls write_buf_to_fd(client->console_sd, ..), in order
    sd_reads,      \* results of read(client->console_sd), in order
    out_writes     \* calls write_buf_to_fd(client->fd_out, ..), in order

vars == <<pc, esc_str_pos, newline, esc_match, scan_log, is_tty, orig_termios, term_attr, sd_open,
          revents, prc, rc, exit_status, tty_reads, sd_writes, sd_reads,
          out_writes>>

(* ---- helpers --------------------------------------------------------- *)
\* non-empty sequences over S of length at most n
SeqsUpTo(S, n) == UNION {[1..k -> S] : k \in 1..n}

RECURSIVE Flatten(_)
\* concatenation of a sequence of byte sequences
Flatten(ss) == IF ss = <<>> THEN <<>> ELSE Head(ss) \o Flatten(Tail(ss))

RECURSIVE SumLen(_)
\* number of bytes delivered by a sequence of reads (len <= 0 delivers none)
SumLen(rs) == IF rs = <<>> THEN 0 ELSE Len(Head(rs).buf) + SumLen(Tail(rs))

\* the byte sequences of a log of reads or writes
Bufs(rs) == [k \in 1..Len(rs) |-> rs[k].buf]

(* ---- write_buf_to_fd -------------------------------------------------- *)
\* Possible outcomes of write_buf_to_fd(fd, from, n): all n bytes are
\* delivered and 0 is returned, or the write fails after a proper prefix was
\* delivered and -1 is returned.  A call with n = 0 writes nothing.
\* src names the array the bytes come from, off the number of terminal
\* bytes read before that array was filled.
write_buf_to_fd(src, off, from, n) ==
    {[src |-> src, off |-> off, len |-> n, buf |-> SubSeq(from, 1, n), rc |-> 0]}
    \cup {[src |-> src, off |-> off, len |-> n, buf |-> SubSeq(from, 1, k), rc |-> -1] :
             k \in 0..(n - 1)}

(* ---- process_tty ------------------------------------------------------ *)
\* mutant: the flush before the escape is also issued for i = esc_str_pos
flush_before_escape_ge(i, pos) == i >= pos

\* if (i > client->esc_str_pos): is there data before the escape to flush?
flush_before_escape(i, pos) == i > pos

\* i - client->esc_str_pos: length flushed before a completed escape
escape_flush_len(i, pos) == i - pos

\* mutant: the forward that ends the call does not hold back the pending match
forward_len_whole(len, pos) == len

\* len - client->esc_str_pos: length of the forward that ends the call
forward_len(len, pos) == len - pos

\* mutant: a write_buf_to_fd result of 0 is taken for a failure
tty_forward_rc_le(wrc) == IF wrc <= 0 THEN PROCESS_ERR ELSE PROCESS_OK

\* if (rc < 0) return PROCESS_ERR; return PROCESS_OK;
tty_forward_rc(wrc) == IF wrc < 0 THEN PROCESS_ERR ELSE PROCESS_OK

\* mutant: the flag survives a byte that is not part of the escape string
newline_after_mismatch_kept == TRUE

\* client->newline after a byte that is not part of the escape string
newline_after_mismatch == FALSE

\* mutant: a carriage return starts the match over
esc_str_pos_after_cr_reset(pos) == 0

\* client->esc_str_pos after a '\r': the continue at line 67 leaves it alone
esc_str_pos_after_cr(pos) == pos

\* mutant: the flag is dropped as soon as a byte of the escape string matched
newline_after_match_cleared(nl) == FALSE

\* client->newline after a byte equal to esc_str[esc_str_pos]: not assigned
newline_after_match(nl) == nl

\* mutant: the reset of the match position is missing
esc_str_pos_after_mismatch_kept(pos) == pos

\* client->esc_str_pos = 0 after a byte that is not part of the escape string
esc_str_pos_after_mismatch(pos) == 0

\* the scanner fields as logged after a byte
logged(pos, nl) == [esc_str_pos |-> pos, newline |-> nl]

RECURSIVE scan(_, _, _, _, _, _, _, _)
\* The for loop of process_tty from index i (0-based, as in the code) on, and
\* the forward that follows it.  buf is the chunk read, off the number of
\* terminal bytes read before it, pos/nl the scanner fields, m the positions
\* of the bytes counted in pos, lg the scanner fields after each byte
\* processed so far, ws the writes issued so far by this call.
\* The result is the set of possible outcomes
\* [rc, esc_str_pos, newline, match, log, writes], one per outcome of the
\* writes.
scan(buf, off, i, pos, nl, m, lg, ws) ==
    IF i >= Len(buf)
    THEN {[rc |-> tty_forward_rc(w.rc), esc_str_pos |-> pos, newline |-> nl,
           match |-> m, log |-> lg, writes |-> Append(ws, w)] :
             w \in write_buf_to_fd("buf", off, buf, forward_len(Len(buf), pos))}
    ELSE IF buf[i + 1] = CR
    THEN scan(buf, off, i + 1, esc_str_pos_after_cr(pos), TRUE, m,
              Append(lg, logged(esc_str_pos_after_cr(pos), TRUE)), ws)
    ELSE IF ~nl
    THEN scan(buf, off, i + 1, pos, nl, m, Append(lg, logged(pos, nl)), ws)
    ELSE IF buf[i + 1] = esc_str[pos + 1]
    THEN IF pos + 1 = ARRAY_SIZE_esc_str
         THEN IF flush_before_escape(i, pos + 1)
              THEN {[rc |-> PROCESS_EXIT, esc_str_pos |-> pos + 1,
                     newline |-> newline_after_match(nl),
                     match |-> Append(m, off + i + 1),
                     log |-> Append(lg, logged(pos + 1, newline_after_match(nl))),
                     writes |-> Append(ws, w)] :
                       w \in write_buf_to_fd("buf", off, buf,
                                             escape_flush_len(i, pos + 1))}
              ELSE {[rc |-> PROCESS_EXIT, esc_str_pos |-> pos + 1,
                     newline |-> newline_after_match(nl),
                     match |-> Append(m, off + i + 1),
                     log |-> Append(lg, logged(pos + 1, newline_after_match(nl))),
                     writes |-> ws]}
         ELSE scan(buf, off, i + 1, pos + 1, newline_after_match(nl),
                   Append(m, off + i + 1),
                   Append(lg, logged(pos + 1, newline_after_match(nl))), ws)
    ELSE UNION {scan(buf, off, i + 1, esc_str_pos_after_mismatch(pos),
                     newline_after_mismatch,
                     IF esc_str_pos_after_mismatch(pos) = 0 THEN <<>> ELSE m,
                     Append(lg, logged(esc_str_pos_after_mismatch(pos),
                                       newline_after_mismatch)), ws2) :
                  ws2 \in IF pos # 0
                          THEN {Append(ws, w) :
                                  w \in write_buf_to_fd("esc_str", off, esc_str, pos)}
                          ELSE {ws}}

\* results read(client->fd_in, buf, sizeof(buf)) can deliver when `done` of
\* at most `max` bytes were delivered before: an error, end of file, or a chunk
tty_read_results(done, max) ==
    {[len |-> -1, buf |-> <<>>], [len |-> 0, buf |-> <<>>]}
    \cup {[len |-> Len(b), buf |-> b] : b \in SeqsUpTo(Byte, max - done)}

\* process_tty: the set of possible outcomes for the read result r
process_tty(r, off, pos, nl, m) ==
    IF r.len < 0
    THEN {[rc |-> PROCESS_ERR, esc_str_pos |-> pos, newline |-> nl,
          match |-> m, log |-> <<>>, writes |-> <<>>]}
    ELSE IF r.len = 0
    THEN {[rc |-> PROCESS_EXIT, esc_str_pos |-> pos, newline |-> nl,
          match |-> m, log |-> <<>>, writes |-> <<>>]}
    ELSE scan(r.buf, off, 0, pos, nl, m, <<>>, <<>>)

(* ---- process_console -------------------------------------------------- *)
console_read_results(done) ==
    {[len |-> -1, buf |-> <<>>], [len |-> 0, buf |-> <<>>]}
    \cup {[len |-> Len(b), buf |-> b] : b \in SeqsUpTo(ConsoleByte, MaxConsole - done)}

\* mutant: only a positive write_buf_to_fd result is taken for a failure
console_write_rc_positive(wrc) == IF wrc > 0 THEN PROCESS_ERR ELSE PROCESS_OK

\* return rc ? PROCESS_ERR : PROCESS_OK;
console_write_rc(wrc) == IF wrc # 0 THEN PROCESS_ERR ELSE PROCESS_OK

\* process_console: the set of possible outcomes [rc, writes] for the read result r
process_console(r, off) ==
    IF r.len < 0
    THEN {[rc |-> PROCESS_ERR, writes |-> <<>>]}
    ELSE IF r.len = 0
    THEN {[rc |-> PROCESS_EXIT, writes |-> <<>>]}
    ELSE {[rc |-> console_write_rc(w.rc), writes |-> <<w>>] :
            w \in write_buf_to_fd("buf", off, r.buf, r.len)}

(* ---- main ------------------------------------------------------------- *)
Init ==
    /\ pc = "client_init"
    /\ esc_str_pos = 0
    /\ newline = FALSE
    /\ esc_match = <<>>
    /\ scan_log = <<>>
    /\ is_tty = FALSE
    /\ orig_termios = "zero"
    /\ term_attr = "cooked"
    /\ sd_open = FALSE
    /\ revents = [tty |-> FALSE, sd |-> FALSE]
    /\ prc = PROCESS_OK
    /\ rc = 0
    /\ exit_status = "none"
    /\ tty_reads = <<>>
    /\ sd_writes = <<>>
    /\ sd_reads = <<>>
    /\ out_writes = <<>>

\* rc = client_init(client); if (rc) return EXIT_FAILURE;
client_init ==
    /\ pc = "client_init"
    /\ \E connected \in BOOLEAN :
         IF connected
         THEN /\ sd_open' = TRUE
              /\ pc' = "client_tty_init"
              /\ UNCHANGED <<rc, exit_status>>
         ELSE /\ rc' = -1
              /\ exit_status' = "EXIT_FAILURE"
              /\ pc' = "done"
              /\ UNCHANGED sd_open
    /\ UNCHANGED <<esc_str_pos, newline, esc_match, scan_log, is_tty, orig_termios, term_attr,
                   revents, prc, tty_reads, sd_writes, sd_reads, out_writes>>

\* rc = client_tty_init(client); if (rc) goto out_fini;
client_tty_init ==
    /\ pc = "client_tty_init"
    /\ \E tty \in BOOLEAN, got \in BOOLEAN, set \in BOOLEAN :
         /\ is_tty' = tty
         /\ IF ~tty
            THEN /\ rc' = 0
                 /\ pc' = "poll"
                 /\ UNCHANGED <<orig_termios, term_attr>>
            ELSE IF ~got
            THEN /\ rc' = -1
                 /\ pc' = "out_fini"
                 /\ UNCHANGED <<orig_termios, term_attr>>
            ELSE /\ orig_termios' = term_attr
                 /\ IF set
                    THEN /\ term_attr' = "raw"
                         /\ rc' = 0
                         /\ pc' = "poll"
                    ELSE /\ rc' = -1
                         /\ pc' = "out_fini"
                         /\ UNCHANGED term_attr
    /\ UNCHANGED <<esc_str_pos, newline, esc_match, scan_log, sd_open, revents, prc, exit_status,
                   tty_reads, sd_writes, sd_reads, out_writes>>

\* mutant: a failed poll returns from main at once instead of breaking
poll_failure_returns ==
    /\ pc = "poll"
    /\ \/ /\ rc' = -1
          /\ pc' = "done"
          /\ exit_status' = "EXIT_FAILURE"
          /\ UNCHANGED revents
       \/ \E t \in BOOLEAN, s \in BOOLEAN :
            /\ t \/ s
            /\ revents' = [tty |-> t, sd |-> s]
            /\ rc' = (IF t THEN 1 ELSE 0) + (IF s THEN 1 ELSE 0)
            /\ pc' = "tty"
            /\ UNCHANGED exit_status
    /\ UNCHANGED <<esc_str_pos, newline, esc_match, scan_log, is_tty, orig_termios, term_attr,
                   sd_open, prc, tty_reads, sd_writes, sd_reads,
                   out_writes>>

\* rc = poll(pollfds, 2, -1); if (rc < 0) break;
poll ==
    /\ pc = "poll"
    /\ \/ /\ rc' = -1
          /\ pc' = "out_fini"
          /\ UNCHANGED revents
       \/ \E t \in BOOLEAN, s \in BOOLEAN :
            /\ t \/ s
            /\ revents' = [tty |-> t, sd |-> s]
            /\ rc' = (IF t THEN 1 ELSE 0) + (IF s THEN 1 ELSE 0)
            /\ pc' = "tty"
    /\ UNCHANGED <<esc_str_pos, newline, esc_match, scan_log, is_tty, orig_termios, term_attr,
                   sd_open, prc, exit_status, tty_reads, sd_writes, sd_reads,
                   out_writes>>

\* if (pollfds[0].revents) prc = process_tty(client);
tty_ready(ev) == ev.tty

\* with a terminal that delivers at most max bytes
main_tty_n(max) ==
    /\ pc = "tty"
    /\ IF tty_ready(revents)
       THEN \E r \in tty_read_results(SumLen(tty_reads), max) :
              \E o \in process_tty(r, SumLen(tty_reads), esc_str_pos, newline,
                                 esc_match) :
                /\ tty_reads' = Append(tty_reads, r)
                /\ prc' = o.rc
                /\ esc_str_pos' = o.esc_str_pos
                /\ newline' = o.newline
                /\ esc_match' = o.match
                /\ scan_log' = scan_log \o o.log
                /\ sd_writes' = sd_writes \o o.writes
       ELSE UNCHANGED <<tty_reads, prc, esc_str_pos, newline, esc_match,
                       scan_log, sd_writes>>
    /\ pc' = "console"
    /\ UNCHANGED <<is_tty, orig_termios, term_attr, sd_open, revents, rc,
                   exit_status, sd_reads, out_writes>>

main_tty == main_tty_n(MaxLoopInput)

\* mutant: the socket is serviced whatever process_tty returned
console_serviced_any_prc(p, ev) == ev.sd

\* if (prc == PROCESS_OK && pollfds[1].revents)
console_serviced(p, ev) == p = PROCESS_OK /\ ev.sd

\* mutant: every way out of the loop is reported as a failure
loop_rc_any_break(p) == IF p # PROCESS_OK THEN -1 ELSE 0

\* rc = (prc == PROCESS_ERR) ? -1 : 0;
loop_rc(p) == IF p = PROCESS_ERR THEN -1 ELSE 0

\* mutant: only an error leaves the loop
loop_break_on_err(p) == p = PROCESS_ERR

\* if (prc != PROCESS_OK) break;
loop_break(p) == p # PROCESS_OK

\* mutant: a carriage return at the end of the service's output sets the
\* newline flag of the escape recogniser
main_console_sets_newline ==
    /\ pc = "console"
    /\ IF console_serviced(prc, revents)
       THEN \E r \in console_read_results(SumLen(sd_reads)) :
              \E o \in process_console(r, SumLen(sd_reads)) :
                /\ sd_reads' = Append(sd_reads, r)
                /\ prc' = o.rc
                /\ out_writes' = out_writes \o o.writes
                /\ newline' = IF r.len > 0 /\ r.buf[r.len] = CR
                              THEN TRUE ELSE newline
       ELSE UNCHANGED <<sd_reads, prc, out_writes, newline>>
    /\ rc' = loop_rc(prc')
    /\ pc' = IF loop_break(prc') THEN "out_fini" ELSE "poll"
    /\ UNCHANGED <<esc_str_pos, esc_match, scan_log, is_tty, orig_termios, term_attr,
                   sd_open, revents, exit_status, tty_reads, sd_writes>>

\* prc = process_console(client); rc = ...; if (prc != PROCESS_OK) break;
main_console ==
    /\ pc = "console"
    /\ IF console_serviced(prc, revents)
       THEN \E r \in console_read_results(SumLen(sd_reads)) :
              \E o \in process_console(r, SumLen(sd_reads)) :
                /\ sd_reads' = Append(sd_reads, r)
                /\ prc' = o.rc
                /\ out_writes' = out_writes \o o.writes
       ELSE UNCHANGED <<sd_reads, prc, out_writes>>
    /\ rc' = loop_rc(prc')
    /\ pc' = IF loop_break(prc') THEN "out_fini" ELSE "poll"
    /\ UNCHANGED <<esc_str_pos, newline, esc_match, scan_log, is_tty, orig_termios, term_attr,
                   sd_open, revents, exit_status, tty_reads, sd_writes>>

\* return rc ? EXIT_FAILURE : EXIT_SUCCESS;
main_status(r) == IF r # 0 THEN "EXIT_FAILURE" ELSE "EXIT_SUCCESS"

\* out_fini: client_fini(client); return ...
client_fini ==
    /\ pc = "out_fini"
    /\ term_attr' = IF is_tty THEN orig_termios ELSE term_attr
    /\ sd_open' = FALSE
    /\ exit_status' = main_status(rc)
    /\ pc' = "done"
    /\ UNCHANGED <<esc_str_pos, newline, esc_match, scan_log, is_tty, orig_termios, revents, prc,
                   rc, tty_reads, sd_writes, sd_reads, out_writes>>

Next ==
    \/ client_init
    \/ client_tty_init
    \/ poll
    \/ main_tty
    \/ main_console
    \/ client_fini

Spec == Init /\ [][Next]_vars

(* ---- the outbound path alone ------------------------------------------ *)
\* poll while the service sends nothing: only the terminal gets ready
poll_tty == poll /\ ~revents'.sd

main_tty_long == main_tty_n(MaxInput)

NextTty ==
    \/ client_init
    \/ client_tty_init
    \/ poll_tty
    \/ main_tty_long
    \/ main_console
    \/ client_fini

\* the program with a silent service and a longer terminal input
SpecTty == Init /\ [][NextTty]_vars

TypeOK ==
    /\ pc \in {"client_init", "client_tty_init", "poll", "tty", "console",
               "out_fini", "done"}
    /\ esc_str_pos \in 0..ARRAY_SIZE_esc_str
    /\ newline \in BOOLEAN
    /\ prc \in {PROCESS_OK, PROCESS_ERR, PROCESS_EXIT}

(* ---- observations ------------------------------------------------------ *)
\* the terminal input stream read so far
Input == Flatten(Bufs(tty_reads))

\* the bytes delivered to the service socket so far, in write order
Wire == Flatten(Bufs(sd_writes))

\* the bytes delivered to terminal output so far, in write order
Output == Flatten(Bufs(out_writes))

\* no write to the service socket has failed
SdWritesOk == \A k \in 1..Len(sd_writes) : sd_writes[k].rc = 0

\* no write to terminal output has failed
OutWritesOk == \A k \in 1..Len(out_writes) : out_writes[k].rc = 0

\* a detach match has completed
Detached == esc_str_pos = ARRAY_SIZE_esc_str

Range(f) == {f[k] : k \in DOMAIN f}

RECURSIVE Without(_, _, _, _)
\* the bytes of s at the positions i..j that are not in the set P
Without(s, P, i, j) ==
    IF i > j THEN <<>>
    ELSE (IF i \in P THEN <<>> ELSE <<s[i]>>) \o Without(s, P, i + 1, j)

\* input position p was written to the service out of a chunk buffer
WrittenFromBuf(p) ==
    \E k \in 1..Len(sd_writes) :
        /\ sd_writes[k].src = "buf"
        /\ sd_writes[k].off < p
        /\ p <= sd_writes[k].off + Len(sd_writes[k].buf)

\* number of terminal bytes read before the most recent read
LastOff == Len(Input) - Len(tty_reads[Len(tty_reads)].buf)

\* the bytes delivered to the service by the most recent call of process_tty
\* that read a chunk
LastCallWire ==
    Flatten(Bufs(SelectSeq(sd_writes, LAMBDA w : w.off = LastOff)))

RECURSIVE bytewise(_, _, _, _, _, _)
\* the stream s from position j on, fed to process_tty one byte per read with
\* every write succeeding: the wire contents and the final scanner state
bytewise(s, j, pos, nl, m, wire) ==
    IF j > Len(s)
    THEN [wire |-> wire, esc_str_pos |-> pos, match |-> m]
    ELSE LET o == CHOOSE o \in process_tty([len |-> 1, buf |-> <<s[j]>>],
                                            j - 1, pos, nl, m) :
                      \A k \in 1..Len(o.writes) : o.writes[k].rc = 0
             w == wire \o Flatten(Bufs(o.writes))
         IN  IF o.rc = PROCESS_EXIT
             THEN [wire |-> w, esc_str_pos |-> o.esc_str_pos, match |-> o.match]
             ELSE bytewise(s, j + 1, o.esc_str_pos, o.newline, o.match, w)

(* ---- claims ------------------------------------------------------------ *)
\* C1: as long as no detach match has completed and every write to the
\* service has succeeded, the bytes on the wire are the terminal input read
\* so far minus the withheld bytes of the pending partial match; a false
\* start puts the withheld '~' on the wire once, right before the
\* mismatching byte.
C1_NoLossDupReorder ==
    (~Detached /\ SdWritesOk) =>
        Wire = Without(Input, Range(esc_match), 1, Len(Input))

\* C2: when a detach match has completed, neither the '~' nor the '.' that
\* formed it was written to the service, in the completing call or before.
C2_TriggerNeverOnWire ==
    Detached => \A k \in 1..Len(esc_match) : ~WrittenFromBuf(esc_match[k])

\* C3: the call of process_tty that completes a detach match returns
\* PROCESS_EXIT after forwarding every byte of its chunk that precedes the
\* matched '~' '.' bytes, the arming carriage return included.
C3_DetachFlushesPrefix ==
    (Detached /\ SdWritesOk) =>
        /\ prc = PROCESS_EXIT
        /\ LastCallWire =
             Without(Input, Range(esc_match), LastOff + 1,
                     esc_match[ARRAY_SIZE_esc_str] - 1)

\* C4: the wire contents and the outcome (detach or not, and at which input
\* byte) do not depend on how the terminal input is split into reads: they
\* are those of the same stream read one byte at a time.
C4_ChunkingIndependent ==
    SdWritesOk =>
        LET ref == bytewise(Input, 1, 0, FALSE, <<>>, <<>>)
        IN  /\ Wire = ref.wire
            /\ esc_str_pos = ref.esc_str_pos
            /\ esc_match = ref.match

\* the first k reads of the terminal, concatenated
InputUpTo(k) == Flatten(Bufs(SubSeq(tty_reads, 1, k)))

\* S ends with a carriage return and holds no carriage return followed by
\* '~', so no escape match was pending or completed while S was scanned
EndsArmed(S) ==
    /\ Len(S) > 0
    /\ S[Len(S)] = CR
    /\ \A j \in 1..(Len(S) - 1) : ~(S[j] = CR /\ S[j + 1] = esc_str[1])

\* the reads after the first k are '~' '.' in one chunk or one byte each
TriggerAfter(k) ==
    /\ Len(tty_reads) - k \in {1, 2}
    /\ Bufs(SubSeq(tty_reads, k + 1, Len(tty_reads)))
         \in {<< <<esc_str[1], esc_str[2]>> >>, << <<esc_str[1]>>, <<esc_str[2]>> >>}

\* the loop of main has been left, or is about to be left by the break
LoopEnding == pc \in {"console", "out_fini", "done"}

\* C5: when the terminal delivers a stream S that ends with a carriage return
\* closing its chunk and holds no earlier escape match, and then '~' '.' in
\* later chunks, the service has received exactly S, process_tty has
\* returned PROCESS_EXIT, the loop ends and main returns EXIT_SUCCESS.
C5_DetachAfterCR ==
    \A k \in 1..Len(tty_reads) :
        (TriggerAfter(k) /\ EndsArmed(InputUpTo(k))) =>
            /\ Wire = InputUpTo(k)
            /\ prc = PROCESS_EXIT
            /\ LoopEnding
            /\ (pc = "done" => exit_status = "EXIT_SUCCESS")

\* 'x' CR in one chunk, then '~', then '.': main has returned
C5_Witness ==
    /\ Bufs(tty_reads) = << <<120, CR>>, <<esc_str[1]>>, <<esc_str[2]>> >>
    /\ Wire = <<120, CR>>
    /\ pc = "done"
    /\ exit_status = "EXIT_SUCCESS"

\* the most recent read of the terminal returned n
LastTtyRead(n) == Len(tty_reads) > 0 /\ tty_reads[Len(tty_reads)].len = n

\* no carriage return has been read from the terminal
NoCR == \A k \in 1..Len(tty_reads) : CR \notin Range(tty_reads[k].buf)

\* number of reads of the terminal that delivered a chunk
ChunksRead == Cardinality({k \in 1..Len(tty_reads) : tty_reads[k].len > 0})

\* C6: from the initial scanner state, while the terminal input holds no
\* carriage return, every call of process_tty passes its whole chunk to the
\* service in one write, returns PROCESS_OK if that write succeeds, never
\* detaches and leaves newline = FALSE and esc_str_pos = 0.
C6_NoCRForwardsAll ==
    NoCR =>
        /\ newline = FALSE
        /\ esc_str_pos = 0
        /\ (pc = "console" /\ prc = PROCESS_EXIT) => LastTtyRead(0)
        /\ Len(sd_writes) = ChunksRead
        /\ \A k \in 1..Len(sd_writes) :
             /\ sd_writes[k].src = "buf"
             /\ sd_writes[k].len = tty_reads[k].len
             /\ sd_writes[k].rc = 0 => sd_writes[k].buf = tty_reads[k].buf
        /\ (/\ pc = "console"
            /\ ChunksRead > 0
            /\ ChunksRead = Len(tty_reads)
            /\ sd_writes[Len(sd_writes)].rc = 0) => prc = PROCESS_OK

\* '~' '.' then 'x' were read without any carriage return and forwarded
C6_Witness ==
    /\ Bufs(tty_reads) = << <<esc_str[1], esc_str[2]>>, <<120>> >>
    /\ Bufs(sd_writes) = Bufs(tty_reads)
    /\ SdWritesOk
    /\ pc = "console"
    /\ revents.tty
    /\ prc = PROCESS_OK

\* C7: once any write to the service has failed, process_tty has returned
\* PROCESS_ERR, the loop ends, main returns EXIT_FAILURE, and neither
\* endpoint is read again.
C7_SdWriteFailureFatal ==
    /\ [](~SdWritesOk =>
            /\ prc = PROCESS_ERR
            /\ LoopEnding
            /\ (pc = "done" => exit_status = "EXIT_FAILURE"))
    /\ [][~SdWritesOk => UNCHANGED <<tty_reads, sd_reads>>]_vars

\* C8: in a wait cycle the terminal is serviced first, in the step that
\* follows poll, and the service socket only after it; once prc is not
\* PROCESS_OK the service socket is not read and terminal output is not
\* written, in that cycle or later.
C8_TtyBeforeConsole ==
    [][/\ pc = "tty" => UNCHANGED <<sd_reads, out_writes>>
       /\ tty_reads' # tty_reads => pc = "tty"
       /\ (sd_reads' # sd_reads \/ out_writes' # out_writes) =>
             (pc = "console" /\ prc = PROCESS_OK)
       /\ prc # PROCESS_OK => UNCHANGED <<sd_reads, out_writes>>]_vars

\* both endpoints were ready, process_tty saw the detach and the service
\* socket was left unread in that cycle
C8_Witness ==
    /\ revents.tty /\ revents.sd
    /\ Detached
    /\ prc = PROCESS_EXIT
    /\ pc = "out_fini"
    /\ sd_reads = <<>>

\* the bytes delivered by the service so far
ConsoleIn == Flatten(Bufs(sd_reads))

\* the outcome of the relay loop after the reads and writes of the inbound path
C9_Outcomes ==
    /\ Len(out_writes) = Cardinality({k \in 1..Len(sd_reads) : sd_reads[k].len > 0})
    /\ \A k \in 1..Len(out_writes) : out_writes[k].len = sd_reads[k].len
    /\ (Len(sd_reads) > 0 /\ sd_reads[Len(sd_reads)].len = 0) =>
          /\ prc = PROCESS_EXIT
          /\ pc \in {"out_fini", "done"}
          /\ (pc = "done" => exit_status = "EXIT_SUCCESS")
    /\ ((Len(sd_reads) > 0 /\ sd_reads[Len(sd_reads)].len < 0) \/ ~OutWritesOk) =>
          /\ prc = PROCESS_ERR
          /\ pc \in {"out_fini", "done"}
          /\ (pc = "done" => exit_status = "EXIT_FAILURE")

\* C9 as stated: in every run the bytes on terminal output are exactly the
\* concatenation of the chunks read from the service; a zero-length read
\* ends the loop with PROCESS_EXIT and EXIT_SUCCESS, a failed read or a
\* failed write to terminal output with PROCESS_ERR and EXIT_FAILURE.
C9_Original ==
    /\ Output = ConsoleIn
    /\ C9_Outcomes

\* C9 (amended): the bytes on terminal output are the concatenation of the
\* chunks read from the service as long as no write to terminal output has
\* failed, and a prefix of it afterwards (a failed write delivers only part
\* of its chunk); the outcomes are as stated.
C9_VerbatimInbound ==
    /\ OutWritesOk => Output = ConsoleIn
    /\ Len(Output) <= Len(ConsoleIn)
    /\ Output = SubSeq(ConsoleIn, 1, Len(Output))
    /\ C9_Outcomes

\* the service sent 'a', then CR, then closed the connection
C9_Witness ==
    /\ Bufs(sd_reads) = << <<97>>, <<CR>>, <<>> >>
    /\ Output = <<97, CR>>
    /\ prc = PROCESS_EXIT
    /\ pc = "done"
    /\ exit_status = "EXIT_SUCCESS"

\* C10: a zero-byte read of the terminal makes process_tty return
\* PROCESS_EXIT without any write to the service and without touching the
\* scanner (a withheld '~' stays unflushed); the loop ends in that cycle
\* without servicing the socket and main returns EXIT_SUCCESS.  A failed
\* read gives PROCESS_ERR and EXIT_FAILURE.
C10_LocalEOF ==
    /\ [](LastTtyRead(0) =>
            /\ prc = PROCESS_EXIT
            /\ LoopEnding
            /\ (pc = "done" => exit_status = "EXIT_SUCCESS"))
    /\ [](LastTtyRead(-1) =>
            /\ prc = PROCESS_ERR
            /\ LoopEnding
            /\ (pc = "done" => exit_status = "EXIT_FAILURE"))
    /\ [][(tty_reads' # tty_reads /\ tty_reads'[Len(tty_reads')].len <= 0) =>
             UNCHANGED <<sd_writes, esc_str_pos, newline, esc_match>>]_vars
    /\ [][(LastTtyRead(0) \/ LastTtyRead(-1)) =>
             UNCHANGED <<tty_reads, sd_writes, sd_reads, out_writes>>]_vars

\* end of file on the terminal while the '~' after a CR was withheld
C10_Witness ==
    /\ Bufs(tty_reads) = << <<CR, esc_str[1]>>, <<>> >>
    /\ LastTtyRead(0)
    /\ esc_str_pos = 1
    /\ Wire = <<CR>>
    /\ pc = "done"
    /\ exit_status = "EXIT_SUCCESS"

\* the four logs of reads and writes on the endpoints
io_logs == <<tty_reads, sd_writes, sd_reads, out_writes>>

C12_WithheldIsPatternPrefix ==
    (prc = PROCESS_OK /\ esc_str_pos > 0 /\ SdWritesOk) =>
        /\ Len(esc_match) = esc_str_pos
        /\ \A k \in 1..Len(esc_match) : Input[esc_match[k]] = esc_str[k]
        /\ Wire = Without(Input, Range(esc_match), 1, Len(Input))
        /\ \A p \in 1..Len(Input) : Input[p] = CR => WrittenFromBuf(p)

\* C13: esc_str_pos stays within 0..ARRAY_SIZE(esc_str); it is below
\* ARRAY_SIZE(esc_str) before every byte of the scan loop (where
\* esc_str[esc_str_pos] may be read), at every call of process_tty and
\* whenever prc is PROCESS_OK; it reaches ARRAY_SIZE(esc_str) only with the
\* last byte processed, in the call that returns PROCESS_EXIT, after which
\* the terminal is not read again.
C13_MatchPosBound ==
    /\ [](/\ esc_str_pos \in 0..ARRAY_SIZE_esc_str
          /\ \A k \in 1..Len(scan_log) :
               /\ scan_log[k].esc_str_pos \in 0..ARRAY_SIZE_esc_str
               /\ k < Len(scan_log) => scan_log[k].esc_str_pos < ARRAY_SIZE_esc_str
          /\ pc \in {"poll", "tty"} => esc_str_pos < ARRAY_SIZE_esc_str
          /\ prc = PROCESS_OK => esc_str_pos < ARRAY_SIZE_esc_str
          /\ Detached => (prc = PROCESS_EXIT /\ LoopEnding))
    /\ [][Detached => UNCHANGED <<tty_reads, scan_log, esc_str_pos>>]_vars

\* the match completed inside a chunk, the rest of the chunk was not
\* scanned, and main has returned
C13_Witness ==
    /\ Detached
    /\ Len(scan_log) < Len(Input)
    /\ scan_log[Len(scan_log)].esc_str_pos = ARRAY_SIZE_esc_str
    /\ pc = "done"

\* the scanner fields before the k-th byte was processed
Before(k) == IF k = 1 THEN logged(0, FALSE) ELSE scan_log[k - 1]

\* the k-th byte was counted as a byte of the escape string
Advanced(k) == scan_log[k].esc_str_pos = Before(k).esc_str_pos + 1

\* the scanner fields are those logged after the last byte processed
FieldsAsLogged ==
    /\ Len(scan_log) <= Len(Input)
    /\ Len(scan_log) > 0 =>
          /\ newline = scan_log[Len(scan_log)].newline
          /\ esc_str_pos = scan_log[Len(scan_log)].esc_str_pos

\* C14 as stated: after every byte processed by the scan loop, newline is
\* true iff that byte was a carriage return.
C14_Original ==
    LET inp == Input
    IN  /\ FieldsAsLogged
        /\ \A k \in 1..Len(scan_log) : scan_log[k].newline <=> inp[k] = CR

\* C14 (amended): after every byte processed by the scan loop, newline is
\* true iff that byte was a carriage return or a byte that matched the
\* expected byte of the escape string and advanced esc_str_pos.
C14_NewlineFlag ==
    LET inp == Input
    IN  /\ FieldsAsLogged
        /\ \A k \in 1..Len(scan_log) :
             scan_log[k].newline <=> (inp[k] = CR \/ Advanced(k))

\* after CR '~' the flag is still set although the last byte is the '~'
C14_Witness ==
    /\ Input = <<CR, esc_str[1]>>
    /\ Len(scan_log) = 2
    /\ newline
    /\ esc_str_pos = 1

\* the k-th byte of the input inp was processed with newline set, is no
\* carriage return and differs from the expected byte of the escape string
Mismatch(inp, k) ==
    /\ inp[k] # CR
    /\ Before(k).newline
    /\ inp[k] # esc_str[Before(k).esc_str_pos + 1]

\* C15: a byte that is no carriage return and differs from the expected
\* pattern byte, processed while newline is set, leaves esc_str_pos = 0 and
\* newline = FALSE without detaching; as long as no carriage return follows
\* no detach is reported, whereas CR '~' '.' right after it, however it is
\* split into reads, completes the match and process_tty returns
\* PROCESS_EXIT.
C15_FalseStartRearm ==
    LET inp == Input
    IN  \A k \in 1..Len(scan_log) :
        Mismatch(inp, k) =>
            /\ scan_log[k] = logged(0, FALSE)
            /\ \A j \in (k + 1)..Len(scan_log) :
                 (\A i \in (k + 1)..j : inp[i] # CR) =>
                     scan_log[j].esc_str_pos # ARRAY_SIZE_esc_str
            /\ (/\ k + 3 <= Len(inp)
                /\ SubSeq(inp, k + 1, k + 3) = <<CR>> \o esc_str) =>
                     /\ Len(scan_log) = k + 3
                     /\ Detached
                     /\ esc_match = <<k + 2, k + 3>>
                     /\ prc = PROCESS_EXIT

\* CR 'x' disarms the scanner; CR, then '~' '.' in a later read, detaches
C15_Witness ==
    /\ Bufs(tty_reads) = << <<CR, 120>>, <<CR>>, esc_str >>
    /\ Mismatch(Input, 2)
    /\ Detached
    /\ prc = PROCESS_EXIT

\* C16: processing a carriage return sets newline and leaves esc_str_pos as
\* it was, also with a partial match pending; so CR '~' CR '.', read from a
\* scanner with no match pending and however it is split into reads,
\* completes the match with the '~' and the '.' and process_tty returns
\* PROCESS_EXIT.
C16_CRKeepsMatchPos ==
    LET inp == Input
    IN  \A k \in 1..Len(scan_log) :
        inp[k] = CR =>
            /\ scan_log[k] = logged(Before(k).esc_str_pos, TRUE)
            /\ (/\ Before(k).esc_str_pos = 0
                /\ k + 3 <= Len(inp)
                /\ SubSeq(inp, k, k + 3) = <<CR, esc_str[1], CR, esc_str[2]>>) =>
                     /\ Len(scan_log) = k + 3
                     /\ Detached
                     /\ esc_match = <<k + 1, k + 3>>
                     /\ prc = PROCESS_EXIT

\* CR '~', then CR with the match pending, then '.': detached
C16_Witness ==
    /\ Bufs(tty_reads) = << <<CR, esc_str[1]>>, <<CR>>, <<esc_str[2]>> >>
    /\ Before(3).esc_str_pos = 1
    /\ scan_log[3] = logged(1, TRUE)
    /\ Detached
    /\ pc = "done"

\* C17: only a step that reads the terminal changes newline or esc_str_pos,
\* the bytes counted in the match or the writes to the service: servicing
\* the socket, whatever it delivers and however it ends, and the wait in
\* poll leave them alone.
C17_ScannerOnlyByTty ==
    [][/\ tty_reads' = tty_reads =>
             UNCHANGED <<newline, esc_str_pos, esc_match, scan_log, sd_writes>>
       /\ (sd_reads' # sd_reads \/ out_writes' # out_writes \/ pc = "poll") =>
             UNCHANGED <<newline, esc_str_pos, esc_match, scan_log, sd_writes,
                         tty_reads>>]_vars

\* with the '~' after a CR withheld, the service sent a CR that was relayed;
\* the match is still pending and the loop goes on
C17_Witness ==
    /\ Bufs(tty_reads) = << <<CR, esc_str[1]>> >>
    /\ Bufs(sd_reads) = << <<CR>> >>
    /\ Output = <<CR>>
    /\ esc_str_pos = 1
    /\ newline
    /\ Wire = <<CR>>
    /\ pc = "poll"

\* C18: in every state, and after every byte of the scan loop,
\* esc_str_pos > 0 implies newline; the byte that clears newline leaves
\* esc_str_pos = 0.
C18_PendingImpliesArmed ==
    /\ esc_str_pos > 0 => newline
    /\ \A k \in 1..Len(scan_log) :
         /\ scan_log[k].esc_str_pos > 0 => scan_log[k].newline
         /\ (Before(k).newline /\ ~scan_log[k].newline) =>
               scan_log[k].esc_str_pos = 0

\* CR '~' 'x': the 'x' found a match pending and disarmed both fields
C18_Witness ==
    /\ Input = <<CR, esc_str[1], 120>>
    /\ Len(scan_log) = 3
    /\ Before(3) = logged(1, TRUE)
    /\ esc_str_pos = 0
    /\ ~newline

\* for each read of the terminal, the number of bytes read before it
ReadOffsets == [k \in 1..Len(tty_reads) |-> SumLen(SubSeq(tty_reads, 1, k - 1))]

\* the j-th write to the service is the flush before a completed escape
IsEscapeFlush(j) ==
    /\ Detached
    /\ j = Len(sd_writes)
    /\ sd_writes[j].src = "buf"
    /\ sd_writes[j].off = LastOff

\* C19: every length process_tty passes to write_buf_to_fd is within the
\* bytes available: a write out of buf has 0 <= length <= len, the forward
\* that ends a call has length len - esc_str_pos, the flush before a
\* completed escape has 0 < length <= len, and the flush of a false start
\* has a length of at most ARRAY_SIZE(esc_str).
C19_WriteLengths ==
    /\ LET offs == ReadOffsets
       IN  \A j \in 1..Len(sd_writes) :
             /\ sd_writes[j].src = "esc_str" =>
                   (0 < sd_writes[j].len /\ sd_writes[j].len <= ARRAY_SIZE_esc_str)
             /\ sd_writes[j].src = "buf" =>
                   /\ 0 <= sd_writes[j].len
                   /\ \E k \in 1..Len(tty_reads) :
                        /\ tty_reads[k].len > 0
                        /\ offs[k] = sd_writes[j].off
                        /\ sd_writes[j].len <= tty_reads[k].len
             /\ IsEscapeFlush(j) => 0 < sd_writes[j].len
    /\ (Len(tty_reads) > 0 /\ tty_reads[Len(tty_reads)].len > 0 /\ ~Detached) =>
          /\ sd_writes[Len(sd_writes)].src = "buf"
          /\ sd_writes[Len(sd_writes)].off = LastOff
          /\ sd_writes[Len(sd_writes)].len =
                tty_reads[Len(tty_reads)].len - esc_str_pos

\* CR, then 'x' CR '~' '.' in one read: the 'x' before the escape is flushed
C19_Witness ==
    /\ Bufs(tty_reads) = << <<CR>>, <<120, CR>> \o esc_str >>
    /\ Detached
    /\ Len(sd_writes) = 2
    /\ IsEscapeFlush(2)
    /\ sd_writes[2].len = 1

\* C20: whenever client_fini is reached with is_tty set, orig_termios holds
\* the attributes a successful tcgetattr saved, not the zeroed structure,
\* and after client_fini the terminal does not carry the zeroed attributes.
C20_RestoresSavedTermios ==
    /\ (pc = "out_fini" /\ is_tty) => orig_termios # "zero"
    /\ (pc = "done" /\ is_tty) => (orig_termios # "zero" /\ term_attr # "zero")
====
